---- MODULE Spec2Model ----
(***************************************************************************)
(* Bastion's message-passing core: the per-actor mailbox                   *)
(* (context.rs: ContextState, BastionContext::try_recv / recv) and the     *)
(* type-erased envelope with its one-shot reply channel and the msg!       *)
(* dispatcher (message.rs).                                                *)
(*                                                                         *)
(* Two state machines share the module's variables:                        *)
(*   SpecMailbox / FairMailbox : producers pushing into one mailbox behind *)
(*                               its Qutex, one consumer calling try_recv  *)
(*                               and recv;                                 *)
(*   SpecMsg / FairMsg         : one envelope, its reply channel and one   *)
(*                               run of the msg! dispatcher.               *)
(* Each leaves the other's variables at their initial values.              *)
(***************************************************************************)
EXTENDS Integers, Sequences, FiniteSets, TLC

(* ------------------------------ bounds -------------------------------- *)

\* envelopes pushed into the mailbox, over all producers
MaxSend == 3
\* receive calls (try_recv or recv) the consumer makes
MaxCalls == 4
\* shared views of a broadcast payload alive at once
MaxViews == 2

(* ------------------------------ payloads ------------------------------ *)

\* The payload types in play (stand-ins for TypeId values): i32 and &'static str.
Types == {"i32", "str"}

\* A payload is a value together with the TypeId it was boxed with.
Payloads == {[ty |-> "i32", val |-> 1], [ty |-> "str", val |-> "ping"]}

\* The values a reply carries.
Replies == {[ty |-> "i32", val |-> 2], [ty |-> "str", val |-> "pong"]}

NoSender == "none"
NoVal == [ty |-> "none", val |-> 0]
NoMsg == [mode |-> "NoMsg", ty |-> "none", val |-> 0, sender |-> NoSender]

\* Msg::broadcast: MsgInner::Broadcast(Arc::new(msg)).
broadcast(p) == [mode |-> "Broadcast", ty |-> p.ty, val |-> p.val, sender |-> NoSender]

\* Msg::tell: MsgInner::Tell(Box::new(msg)).
tell(p) == [mode |-> "Tell", ty |-> p.ty, val |-> p.val, sender |-> NoSender]

\* Msg::ask: MsgInner::Ask { msg, sender: Some(sender) }, paired with an Answer.
ask(p) == [mode |-> "Ask", ty |-> p.ty, val |-> p.val, sender |-> "some"]

PayloadOf(m) == [ty |-> m.ty, val |-> m.val]

(* ------------------------------ mailbox ------------------------------- *)

Producers == {"p1", "p2"}
Consumer == "c"
NoTask == "none"

\* The k-th envelope of producer p: a broadcast of an i32; p1 sends 1, 2, 3, ...
\* and p2 sends 11, 12, 13, ...
Base(p) == IF p = "p1" THEN 0 ELSE 10
Envelope(p, k) == broadcast([ty |-> "i32", val |-> Base(p) + k])
Envelopes == {Envelope(p, k) : p \in Producers, k \in 1..MaxSend}
ProducerOf(e) == IF e.val > 10 THEN "p2" ELSE "p1"

None == NoMsg

VARIABLES
    msgs,        \* ContextState.msgs: VecDeque<Msg>
    holder,      \* the task holding the Qutex guard, or NoTask
    queue,       \* the Qutex's FIFO queue of lock requests
    lockUsable,  \* FALSE once lock_async resolves to Err (the lock is poisoned/detached)
    woken,       \* the consumer's task has been woken since its last poll
    ppc,         \* each producer's position
    sent,        \* how many envelopes each producer has pushed
    cpc,         \* the consumer's position in its current call
    ckind,       \* the call the consumer is in: "try_recv", "recv" or "none"
    cparked,     \* the latest receive call has yielded at pending!() at least once
    log,         \* history: the result of every finished receive call, in order
    completed,   \* history: envelopes in the order their push critical sections ended
    env,         \* the envelope in the consumer's hands, or NoMsg once consumed or dropped
    clone,       \* an envelope obtained from try_clone, or NoMsg
    held,        \* reply senders detached from the envelope and held by the consumer
    tx,          \* the reply channel's sender half: "none", "alive", "sent" or "dropped"
    slot,        \* the reply channel's value slot
    answerAlive, \* the Answer has not been dropped
    outcome,     \* what awaiting the Answer has resolved to
    sends,       \* history: calls of Sender::send on the reply channel
    taken,       \* history: calls of take_sender that returned a sender
    sendRes,     \* the result of the latest Sender::send
    last,        \* the latest envelope operation, its input and its result
    branches,    \* the candidate branches of the msg! invocation, in declaration order
    dpc,         \* the dispatcher's position
    dclass,      \* the branch class the dispatcher probes
    didx,        \* the next candidate of that class to probe
    dsender,     \* the dispatcher's local `sender`
    d0,          \* history: the envelope as handed to the dispatcher
    ran,         \* history: the handlers the dispatcher ran (0 is the default)
    repoll,      \* the result of the latest poll of the Answer after it resolved
    views,       \* shared views (Arc<T>) returned by downcast_ref and still alive
    bmsg,        \* the control envelope (BastionMessage) in hand, or NoCtl
    bclone,      \* a control envelope obtained from BastionMessage::try_clone
    bpc,         \* "ok", or "panicked" once a control-envelope call has panicked
    blast        \* the latest control-envelope operation, its input and its result

mboxVars == <<msgs, holder, queue, lockUsable, woken, ppc, sent, cpc, ckind,
              cparked, log, completed>>

msgVars == <<env, clone, held, tx, slot, answerAlive, outcome, sends, taken, sendRes,
             last, branches, dpc, dclass, didx, dsender, d0, ran, repoll, views>>

ctlVars == <<bmsg, bclone, bpc, blast>>

vars == <<mboxVars, msgVars, ctlVars>>

Unresolved(st) == [st |-> st, msg |-> NoMsg]
NoSend == [ok |-> FALSE, w |-> NoVal, back |-> NoVal, panic |-> FALSE]
NoOp == [op |-> "none", T |-> "none", before |-> NoMsg, others |-> 0,
         ok |-> FALSE, val |-> NoVal, msg |-> NoMsg]

\* A control envelope (BastionMessage): its variant and that variant's payload.
Ctl(tag) == [tag |-> tag, id |-> "none", strategy |-> "none", deploy |-> "none", msg |-> NoMsg]
NoCtl == Ctl("NoCtl")
NoCtlOp == [op |-> "none", T |-> "none", before |-> NoCtl, others |-> 0, res |-> NoCtl, val |-> NoVal]

\* No control envelope in hand.
CtlIdle ==
    /\ bmsg = NoCtl
    /\ bclone = NoCtl
    /\ bpc = "ok"
    /\ blast = NoCtlOp

\* No envelope, no reply channel, no dispatch.
MsgIdle ==
    /\ env = NoMsg
    /\ clone = NoMsg
    /\ held = 0
    /\ tx = "none"
    /\ slot = NoMsg
    /\ answerAlive = FALSE
    /\ outcome = Unresolved("none")
    /\ sends = 0
    /\ taken = 0
    /\ sendRes = NoSend
    /\ last = NoOp
    /\ branches = <<>>
    /\ dpc = "idle"
    /\ dclass = "none"
    /\ didx = 0
    /\ dsender = NoSender
    /\ d0 = NoMsg
    /\ ran = <<>>
    /\ repoll = Unresolved("none")
    /\ views = 0

\* ContextState::new: an empty mailbox, its lock free.
MailboxIdle ==
    /\ msgs = <<>>
    /\ holder = NoTask
    /\ queue = <<>>
    /\ lockUsable = TRUE
    /\ woken = FALSE
    /\ ppc = [p \in Producers |-> "idle"]
    /\ sent = [p \in Producers |-> 0]
    /\ cpc = "idle"
    /\ ckind = "none"
    /\ cparked = FALSE
    /\ log = <<>>
    /\ completed = <<>>

InitMailbox == MailboxIdle /\ MsgIdle /\ CtlIdle

\* VecDeque::push_front: what push_msg would be with the wrong end.
push_front(ms, e) == <<e>> \o ms

\* ContextState::push_msg: self.msgs.push_back(msg).
push_msg(ms, e) == Append(ms, e)

\* VecDeque::pop_back: what the receive calls would see popping the wrong end.
pop_back(ms) ==
    IF ms = <<>> THEN [msg |-> None, rest |-> ms]
    ELSE [msg |-> ms[Len(ms)], rest |-> SubSeq(ms, 1, Len(ms) - 1)]

\* What the receive calls would see if they read the front without removing it.
pop_front_keeps(ms) ==
    IF ms = <<>> THEN [msg |-> None, rest |-> ms]
    ELSE [msg |-> Head(ms), rest |-> ms]

\* VecDeque::pop_front as used by try_recv and recv: the oldest envelope, or None.
pop_front(ms) ==
    IF ms = <<>> THEN [msg |-> None, rest |-> ms]
    ELSE [msg |-> Head(ms), rest |-> Tail(ms)]

\* Qutex: lock_async() enqueues a request.
Enqueue(t) == queue' = Append(queue, t)

\* What the lock would be if it granted the oldest request whether or not the
\* guard is out.
GrantedWhileHeld(t) == queue # <<>> /\ Head(queue) = t

\* Qutex: the request at the head of the queue is granted when the lock is free.
Granted(t) == holder = NoTask /\ queue # <<>> /\ Head(queue) = t

Dequeue(t) == SelectSeq(queue, LAMBDA x : x # t)

\* Pushes made or under way, over all producers.
Pushes == Len(completed) + Cardinality({p \in Producers : ppc[p] \in {"lock", "unlock"}})

(* Producers: a caller of push_msg takes the mailbox lock, pushes, unlocks. *)

ProducerRequest(p) ==
    /\ ppc[p] = "idle"
    /\ Pushes < MaxSend
    /\ Enqueue(p)
    /\ ppc' = [ppc EXCEPT ![p] = "lock"]
    /\ UNCHANGED <<msgs, holder, lockUsable, woken, sent, cpc, ckind, cparked, log, completed, msgVars, ctlVars>>

\* lock_async resolved to Err: the producer's send fails and it stops.
ProducerLockFails(p) ==
    /\ ppc[p] = "lock"
    /\ ~lockUsable
    /\ queue' = Dequeue(p)
    /\ ppc' = [ppc EXCEPT ![p] = "failed"]
    /\ UNCHANGED <<msgs, holder, lockUsable, woken, sent, cpc, ckind, cparked, log, completed, msgVars, ctlVars>>

\* lock_async().await resolved to Ok(guard): state.push_msg(msg)
ProducerPush(p) ==
    /\ ppc[p] = "lock"
    /\ lockUsable
    /\ Granted(p)
    /\ holder' = p
    /\ queue' = Tail(queue)
    /\ msgs' = push_msg(msgs, Envelope(p, sent[p] + 1))
    /\ sent' = [sent EXCEPT ![p] = @ + 1]
    /\ ppc' = [ppc EXCEPT ![p] = "unlock"]
    /\ UNCHANGED <<lockUsable, woken, cpc, ckind, cparked, log, completed, msgVars, ctlVars>>

\* The guard is dropped; the push is an event that wakes the consumer's task.
ProducerUnlock(p) ==
    /\ ppc[p] = "unlock"
    /\ holder' = NoTask
    /\ completed' = Append(completed, Envelope(p, sent[p]))
    /\ woken' = TRUE
    /\ ppc' = [ppc EXCEPT ![p] = "idle"]
    /\ UNCHANGED <<msgs, queue, lockUsable, sent, cpc, ckind, cparked, log, msgVars, ctlVars>>

(* The consumer: BastionContext::try_recv and BastionContext::recv. *)

Returned(kind, res) == [kind |-> kind, res |-> res]

\* try_recv is called: self.state.clone().lock_async()
CallTryRecv ==
    /\ cpc = "idle"
    /\ Len(log) < MaxCalls
    /\ Enqueue(Consumer)
    /\ cpc' = "lock"
    /\ ckind' = "try_recv"
    /\ cparked' = FALSE
    /\ woken' = FALSE
    /\ UNCHANGED <<msgs, holder, lockUsable, ppc, sent, log, completed, msgVars, ctlVars>>

\* recv is called: the first iteration's self.state.clone().lock_async()
CallRecv ==
    /\ cpc = "idle"
    /\ Len(log) < MaxCalls
    /\ Enqueue(Consumer)
    /\ cpc' = "lock"
    /\ ckind' = "recv"
    /\ cparked' = FALSE
    /\ woken' = FALSE
    /\ UNCHANGED <<msgs, holder, lockUsable, ppc, sent, log, completed, msgVars, ctlVars>>

\* .await on the lock resolves to Ok(guard)
ConsumerAcquire ==
    /\ cpc = "lock"
    /\ lockUsable
    /\ Granted(Consumer)
    /\ holder' = Consumer
    /\ queue' = Tail(queue)
    /\ cpc' = "locked"
    /\ UNCHANGED <<msgs, lockUsable, woken, ppc, sent, ckind, cparked, log, completed, msgVars, ctlVars>>

\* try_recv: lock_async().await.ok()? on Err returns None
TryRecvLockFails ==
    /\ cpc = "lock"
    /\ ckind = "try_recv"
    /\ ~lockUsable
    /\ queue' = Dequeue(Consumer)
    /\ log' = Append(log, Returned("try_recv", None))
    /\ cpc' = "idle"
    /\ ckind' = "none"
    /\ UNCHANGED <<msgs, holder, lockUsable, woken, ppc, sent, cparked, completed, msgVars, ctlVars>>

\* recv: lock_async().await.unwrap() on Err panics
RecvLockFails ==
    /\ cpc = "lock"
    /\ ckind = "recv"
    /\ ~lockUsable
    /\ queue' = Dequeue(Consumer)
    /\ cpc' = "panicked"
    /\ UNCHANGED <<msgs, holder, lockUsable, woken, ppc, sent, ckind, cparked, log, completed, msgVars, ctlVars>>

\* What try_recv would do if it waited for a message like recv: unlock and
\* yield when the mailbox is empty.
TryRecvPopWaits ==
    /\ cpc = "locked"
    /\ ckind = "try_recv"
    /\ IF pop_front(msgs).msg # None
       THEN /\ msgs' = pop_front(msgs).rest
            /\ log' = Append(log, Returned("try_recv", pop_front(msgs).msg))
            /\ cpc' = "idle"
            /\ ckind' = "none"
            /\ UNCHANGED cparked
       ELSE /\ cpc' = "parked"
            /\ cparked' = TRUE
            /\ UNCHANGED <<msgs, log, ckind>>
    /\ holder' = NoTask
    /\ UNCHANGED <<queue, lockUsable, woken, ppc, sent, completed, msgVars, ctlVars>>

\* What try_recv would do if its guard were leaked instead of dropped on return.
TryRecvPopLeaksGuard ==
    /\ cpc = "locked"
    /\ ckind = "try_recv"
    /\ msgs' = pop_front(msgs).rest
    /\ log' = Append(log, Returned("try_recv", pop_front(msgs).msg))
    /\ cpc' = "idle"
    /\ ckind' = "none"
    /\ UNCHANGED <<holder, queue, lockUsable, woken, ppc, sent, cparked, completed, msgVars, ctlVars>>

\* try_recv with the guard: pop_front, return Some(msg) or None; the guard drops.
TryRecvPop ==
    /\ cpc = "locked"
    /\ ckind = "try_recv"
    /\ msgs' = pop_front(msgs).rest
    /\ log' = Append(log, Returned("try_recv", pop_front(msgs).msg))
    /\ holder' = NoTask
    /\ cpc' = "idle"
    /\ ckind' = "none"
    /\ UNCHANGED <<queue, lockUsable, woken, ppc, sent, cparked, completed, msgVars, ctlVars>>

\* recv with the guard, and the mailbox empty: what recv would do if it held the
\* guard across pending!() (no Guard::unlock).
RecvPopKeepGuard ==
    /\ cpc = "locked"
    /\ ckind = "recv"
    /\ IF pop_front(msgs).msg # None
       THEN /\ msgs' = pop_front(msgs).rest
            /\ log' = Append(log, Returned("recv", pop_front(msgs).msg))
            /\ holder' = NoTask
            /\ cpc' = "idle"
            /\ ckind' = "none"
            /\ UNCHANGED cparked
       ELSE /\ cpc' = "parked"
            /\ cparked' = TRUE
            /\ UNCHANGED <<msgs, log, ckind, holder>>
    /\ UNCHANGED <<queue, lockUsable, woken, ppc, sent, completed, msgVars, ctlVars>>

\* recv with the guard: pop_front and return Ok(msg) (the guard drops), or
\* Guard::unlock(state) and pending!().
RecvPop ==
    /\ cpc = "locked"
    /\ ckind = "recv"
    /\ IF pop_front(msgs).msg # None
       THEN /\ msgs' = pop_front(msgs).rest
            /\ log' = Append(log, Returned("recv", pop_front(msgs).msg))
            /\ cpc' = "idle"
            /\ ckind' = "none"
            /\ UNCHANGED cparked
       ELSE /\ cpc' = "parked"
            /\ cparked' = TRUE
            /\ UNCHANGED <<msgs, log, ckind>>
    /\ holder' = NoTask
    /\ UNCHANGED <<queue, lockUsable, woken, ppc, sent, completed, msgVars, ctlVars>>

\* What a resumed recv would do if pending!() were not inside the loop: yield
\* again without looking at the mailbox.
RecvResumeNoRetry ==
    /\ cpc = "parked"
    /\ woken
    /\ woken' = FALSE
    /\ UNCHANGED <<msgs, holder, queue, lockUsable, ppc, sent, cpc, ckind, cparked, log, completed, msgVars, ctlVars>>

\* The consumer's task is polled again after pending!(): recv's loop starts over
\* with a new lock_async().
RecvResume ==
    /\ cpc = "parked"
    /\ Enqueue(Consumer)
    /\ cpc' = "lock"
    /\ woken' = FALSE
    /\ UNCHANGED <<msgs, holder, lockUsable, ppc, sent, ckind, cparked, log, completed, msgVars, ctlVars>>

\* The environment: the mailbox's lock becomes unusable.
LockBreaks ==
    /\ lockUsable
    /\ lockUsable' = FALSE
    /\ UNCHANGED <<msgs, holder, queue, woken, ppc, sent, cpc, ckind, cparked, log, completed, msgVars, ctlVars>>

ProducerStep(p) ==
    \/ ProducerRequest(p)
    \/ ProducerLockFails(p)
    \/ ProducerPush(p)
    \/ ProducerUnlock(p)

ConsumerProgress ==
    \/ ConsumerAcquire
    \/ TryRecvLockFails
    \/ RecvLockFails
    \/ TryRecvPop
    \/ RecvPop

NextMailbox ==
    \/ \E p \in Producers : ProducerStep(p)
    \/ CallTryRecv
    \/ CallRecv
    \/ ConsumerProgress
    \/ RecvResume
    \/ LockBreaks

SpecMailbox == InitMailbox /\ [][NextMailbox]_vars

\* A woken task is polled again, a granted lock request is taken up, and a task
\* holding the guard runs to the end of its critical section.
FairMailbox ==
    /\ SpecMailbox
    /\ \A p \in Producers : WF_vars(ProducerStep(p))
    /\ WF_vars(ConsumerProgress)
    /\ WF_vars(woken /\ RecvResume)


(* ------------------------------ envelope ------------------------------ *)

Ok(v) == [ok |-> TRUE, val |-> v, msg |-> NoMsg]
Err(m) == [ok |-> FALSE, val |-> NoVal, msg |-> m]

\* Msg::is_broadcast / is_tell / is_ask
is_broadcast(m) == m.mode = "Broadcast"
is_tell(m) == m.mode = "Tell"
is_ask(m) == m.mode = "Ask"

\* What take_sender would be if it copied the sender out instead of taking it.
take_sender_keeps(m) ==
    IF m.mode = "Ask" THEN [sender |-> m.sender, msg |-> m]
    ELSE [sender |-> NoSender, msg |-> m]

\* What take_sender would be if an Ask without its sender were rebuilt as a Tell.
take_sender_demotes(m) ==
    IF m.mode = "Ask"
    THEN [sender |-> m.sender,
          msg |-> [mode |-> "Tell", ty |-> m.ty, val |-> m.val, sender |-> NoSender]]
    ELSE [sender |-> NoSender, msg |-> m]

\* Msg::take_sender: sender.take() on an Ask, None otherwise.
take_sender(m) ==
    IF m.mode = "Ask" THEN [sender |-> m.sender, msg |-> [m EXCEPT !.sender = NoSender]]
    ELSE [sender |-> NoSender, msg |-> m]

\* What downcast would be if the mismatch arm of an Ask rebuilt it without its sender.
downcast_drops_sender(m, T) ==
    CASE m.mode = "Tell" ->
            IF m.ty = T THEN Ok(PayloadOf(m))
            ELSE Err([mode |-> "Tell", ty |-> m.ty, val |-> m.val, sender |-> NoSender])
      [] m.mode = "Ask" ->
            IF m.ty = T THEN Ok(PayloadOf(m))
            ELSE Err([mode |-> "Ask", ty |-> m.ty, val |-> m.val, sender |-> NoSender])
      [] OTHER -> Err(m)

\* Msg::downcast::<T>: Ok(payload) when a Tell or Ask holds a T, else Err(envelope).
downcast(m, T) ==
    CASE m.mode = "Tell" ->
            IF m.ty = T THEN Ok(PayloadOf(m))
            ELSE Err([mode |-> "Tell", ty |-> m.ty, val |-> m.val, sender |-> NoSender])
      [] m.mode = "Ask" ->
            IF m.ty = T THEN Ok(PayloadOf(m))
            ELSE Err([mode |-> "Ask", ty |-> m.ty, val |-> m.val, sender |-> m.sender])
      [] OTHER -> Err(m)

\* What downcast_ref would be if it checked the payload's type but not the mode.
downcast_ref_any_mode(m, T) ==
    IF m.ty = T THEN PayloadOf(m) ELSE NoVal

\* Msg::downcast_ref::<T>: a shared view of a Broadcast's payload, or None.
downcast_ref(m, T) ==
    IF m.mode = "Broadcast" /\ m.ty = T THEN PayloadOf(m) ELSE NoVal

\* What try_clone would be if it copied the envelope whatever its mode.
try_clone_any(m) == m

\* Msg::try_clone: a Broadcast's handle is cloned; Tell and Ask give None.
try_clone(m) ==
    IF m.mode = "Broadcast" THEN [mode |-> "Broadcast", ty |-> m.ty, val |-> m.val, sender |-> NoSender]
    ELSE NoMsg

\* What try_unwrap would be if it took the payload out of a shared handle
\* without looking at the other handles.
try_unwrap_ignores_handles(m, T, others) ==
    IF m.mode = "Broadcast"
    THEN IF m.ty = T THEN Ok(PayloadOf(m)) ELSE Err(m)
    ELSE downcast(m, T)

\* What try_unwrap would be if it handled shared payloads only.
try_unwrap_shared_only(m, T, others) ==
    IF m.mode = "Broadcast" /\ m.ty = T /\ others = 0 THEN Ok(PayloadOf(m)) ELSE Err(m)

\* Msg::try_unwrap::<T>, with `others` further handles to a Broadcast's payload alive.
try_unwrap(m, T, others) ==
    IF m.mode = "Broadcast"
    THEN IF m.ty = T /\ others = 0 THEN Ok(PayloadOf(m)) ELSE Err(m)
    ELSE downcast(m, T)

(* --------------------------- reply channel ---------------------------- *)

\* What Sender::send would be if it dropped the channel's sender without sending.
send_loses(w, rxAlive) == [slot |-> NoMsg, ok |-> TRUE, back |-> NoVal, panic |-> FALSE]

\* Sender::send: the value is wrapped by Msg::tell and handed to the one-shot
\* channel; with the receiver gone the envelope comes back and is unwrapped again
\* by try_unwrap().unwrap(), which panics should try_unwrap fail.
send(w, rxAlive) ==
    IF rxAlive THEN [slot |-> tell(w), ok |-> TRUE, back |-> NoVal, panic |-> FALSE]
    ELSE [slot |-> NoMsg, ok |-> FALSE, back |-> try_unwrap(tell(w), w.ty, 0).val,
          panic |-> ~try_unwrap(tell(w), w.ty, 0).ok]

\* The effect of sender.send(w) on the channel; the sender is consumed.
Sending(w) ==
    /\ slot' = send(w, answerAlive).slot
    /\ sendRes' = [ok |-> send(w, answerAlive).ok, w |-> w, back |-> send(w, answerAlive).back,
                   panic |-> send(w, answerAlive).panic]
    /\ tx' = IF send(w, answerAlive).ok THEN "sent" ELSE "dropped"
    /\ sends' = sends + 1

\* A sender is dropped without a send; a channel already used stays as it is.
SenderDropped == IF tx = "alive" THEN "dropped" ELSE tx

\* The sender inside envelope m, if any, is dropped with it.
DroppedWith(m) == IF m.sender = "some" THEN SenderDropped ELSE tx

\* What Answer::poll would be if it treated a cancelled channel as not ready.
poll_ignores_cancel(t, sl) ==
    IF t \in {"sent", "dropped"} /\ sl # NoMsg THEN [st |-> "ok", msg |-> sl]
    ELSE Unresolved("pending")

\* Answer::poll: the receiver's Ok(msg) once a value was sent, Err(()) once the
\* sender is gone without one, Pending before.
poll(t, sl) ==
    IF t \in {"sent", "dropped"}
    THEN IF sl # NoMsg THEN [st |-> "ok", msg |-> sl] ELSE Unresolved("err")
    ELSE Unresolved("pending")

(* ----------------------- the msg! dispatcher -------------------------- *)

Branch(cls, ty) == [cls |-> cls, ty |-> ty]

\* Invocations of msg!: each a list of candidate branches in declaration order
\* ("ref" for `ref x: T =>`, "tell" for `x: T =>`, "ask" for `x: T =!>`); the
\* default branch `_: _ =>` always follows.
BranchLists ==
    { <<Branch("ref", "str"), Branch("tell", "str"), Branch("ask", "i32"), Branch("ask", "str")>>,
      <<Branch("tell", "i32"), Branch("ask", "str"), Branch("ref", "i32"),
        Branch("tell", "i32"), Branch("ask", "str"), Branch("ref", "i32")>>,
      <<Branch("ask", "i32")>> }

\* What the macro's accumulators would hold if every branch went into every list.
AllBranches(bs, cls) == [i \in 1..Len(bs) |-> i]

\* The macro's three accumulators: the positions of the branches of one class,
\* in declaration order.
ClassBranches(bs, cls) ==
    SelectSeq([i \in 1..Len(bs) |-> i], LAMBDA i : bs[i].cls = cls)

Candidates == ClassBranches(branches, dclass)

(* ------------------------------ actions ------------------------------- *)

InitMsg ==
    /\ MailboxIdle
    /\ CtlIdle
    /\ \E p \in Payloads : env \in {broadcast(p), tell(p), ask(p)}
    /\ clone = NoMsg
    /\ held = 0
    /\ tx = IF is_ask(env) THEN "alive" ELSE "none"
    /\ slot = NoMsg
    /\ answerAlive = is_ask(env)
    /\ outcome = IF is_ask(env) THEN Unresolved("pending") ELSE Unresolved("none")
    /\ sends = 0
    /\ taken = 0
    /\ sendRes = NoSend
    /\ last = NoOp
    /\ branches \in BranchLists
    /\ dpc = "idle"
    /\ dclass = "none"
    /\ didx = 0
    /\ dsender = NoSender
    /\ d0 = NoMsg
    /\ ran = <<>>
    /\ repoll = Unresolved("none")
    /\ views = 0

InHand == env # NoMsg /\ dpc = "idle"

\* The handles to the envelope's shared payload held elsewhere: the views
\* returned by downcast_ref and the clone made by try_clone.
Others == views + (IF clone # NoMsg THEN 1 ELSE 0)

Did(op, T, r) ==
    [op |-> op, T |-> T, before |-> env, others |-> Others,
     ok |-> r.ok, val |-> r.val, msg |-> r.msg]

OpTakeSender ==
    /\ InHand
    /\ env' = take_sender(env).msg
    /\ held' = held + (IF take_sender(env).sender = "some" THEN 1 ELSE 0)
    /\ taken' = taken + (IF take_sender(env).sender = "some" THEN 1 ELSE 0)
    /\ last' = Did("take_sender", "none",
                   [ok |-> take_sender(env).sender = "some", val |-> NoVal, msg |-> take_sender(env).msg])
    /\ UNCHANGED <<clone, tx, slot, answerAlive, outcome, sends, sendRes,
                   branches, dpc, dclass, didx, dsender, d0, ran, repoll, views, mboxVars, ctlVars>>

\* self is consumed: on Ok the envelope is gone (and a sender still inside is
\* dropped with it), on Err the caller holds the returned envelope.
OpDowncast(T) ==
    /\ InHand
    /\ env' = downcast(env, T).msg
    /\ tx' = IF downcast(env, T).ok THEN DroppedWith(env) ELSE tx
    /\ last' = Did("downcast", T, downcast(env, T))
    /\ UNCHANGED <<clone, held, slot, answerAlive, outcome, sends, taken, sendRes,
                   branches, dpc, dclass, didx, dsender, d0, ran, repoll, views, mboxVars, ctlVars>>

\* &self: the envelope stays; a Some result is a new Arc handle the caller holds.
OpDowncastRef(T) ==
    /\ InHand
    /\ downcast_ref(env, T) # NoVal => views < MaxViews
    /\ views' = views + (IF downcast_ref(env, T) # NoVal THEN 1 ELSE 0)
    /\ last' = Did("downcast_ref", T,
                   [ok |-> downcast_ref(env, T) # NoVal, val |-> downcast_ref(env, T), msg |-> NoMsg])
    /\ UNCHANGED <<env, clone, held, tx, slot, answerAlive, outcome, sends, taken, sendRes,
                   branches, dpc, dclass, didx, dsender, d0, ran, repoll, mboxVars, ctlVars>>

\* A view returned by downcast_ref is dropped.
OpDropView ==
    /\ views > 0
    /\ views' = views - 1
    /\ UNCHANGED <<env, clone, held, tx, slot, answerAlive, outcome, sends, taken, sendRes, last,
                   branches, dpc, dclass, didx, dsender, d0, ran, repoll, mboxVars, ctlVars>>

\* self is consumed: on Ok the envelope is gone (and a sender still inside is
\* dropped with it), on Err the caller holds the returned envelope.
OpTryUnwrap(T) ==
    /\ InHand
    /\ env' = try_unwrap(env, T, Others).msg
    /\ tx' = IF try_unwrap(env, T, Others).ok THEN DroppedWith(env) ELSE tx
    /\ last' = Did("try_unwrap", T, try_unwrap(env, T, Others))
    /\ UNCHANGED <<clone, held, slot, answerAlive, outcome, sends, taken, sendRes,
                   branches, dpc, dclass, didx, dsender, d0, ran, repoll, views, mboxVars, ctlVars>>

OpTryClone ==
    /\ InHand
    /\ clone = NoMsg
    /\ clone' = try_clone(env)
    /\ last' = Did("try_clone", "none",
                   [ok |-> try_clone(env) # NoMsg, val |-> NoVal, msg |-> try_clone(env)])
    /\ UNCHANGED <<env, held, tx, slot, answerAlive, outcome, sends, taken, sendRes,
                   branches, dpc, dclass, didx, dsender, d0, ran, repoll, views, mboxVars, ctlVars>>

OpDropClone ==
    /\ clone # NoMsg
    /\ clone' = NoMsg
    /\ tx' = DroppedWith(clone)
    /\ UNCHANGED <<env, held, slot, answerAlive, outcome, sends, taken, sendRes, last,
                   branches, dpc, dclass, didx, dsender, d0, ran, repoll, views, mboxVars, ctlVars>>

OpDropEnvelope ==
    /\ InHand
    /\ env' = NoMsg
    /\ tx' = DroppedWith(env)
    /\ last' = Did("drop", "none", Err(NoMsg))
    /\ UNCHANGED <<clone, held, slot, answerAlive, outcome, sends, taken, sendRes,
                   branches, dpc, dclass, didx, dsender, d0, ran, repoll, views, mboxVars, ctlVars>>

\* Sender::send on a sender detached with take_sender.
Send(w) ==
    /\ held > 0
    /\ held' = held - 1
    /\ Sending(w)
    /\ UNCHANGED <<env, clone, answerAlive, outcome, taken, last,
                   branches, dpc, dclass, didx, dsender, d0, ran, repoll, views, mboxVars, ctlVars>>

DropSender ==
    /\ held > 0
    /\ held' = held - 1
    /\ tx' = SenderDropped
    /\ UNCHANGED <<env, clone, slot, answerAlive, outcome, sends, taken, sendRes, last,
                   branches, dpc, dclass, didx, dsender, d0, ran, repoll, views, mboxVars, ctlVars>>

DropAnswer ==
    /\ answerAlive
    /\ answerAlive' = FALSE
    /\ slot' = NoMsg
    /\ UNCHANGED <<env, clone, held, tx, outcome, sends, taken, sendRes, last,
                   branches, dpc, dclass, didx, dsender, d0, ran, repoll, views, mboxVars, ctlVars>>

\* What the first Ready poll would be if it copied the value out of the channel
\* instead of taking it.
PollAnswerLeavesValue ==
    /\ answerAlive
    /\ outcome.st = "pending"
    /\ outcome' = poll(tx, slot)
    /\ UNCHANGED <<env, clone, held, tx, slot, answerAlive, sends, taken, sendRes, last,
                   branches, dpc, dclass, didx, dsender, d0, ran, repoll, views, mboxVars, ctlVars>>

\* The asker awaits the Answer: one poll; a Ready result ends the await.
PollAnswer ==
    /\ answerAlive
    /\ outcome.st = "pending"
    /\ outcome' = poll(tx, slot)
    /\ slot' = IF poll(tx, slot).st = "ok" THEN NoMsg ELSE slot
    /\ UNCHANGED <<env, clone, held, tx, answerAlive, sends, taken, sendRes, last,
                   branches, dpc, dclass, didx, dsender, d0, ran, repoll, views, mboxVars, ctlVars>>

\* Answer::poll called once more on an Answer that has already resolved: the
\* same delegation to the receiver, whose value the first Ready poll moved out.
PollAgain ==
    /\ answerAlive
    /\ outcome.st \in {"ok", "err"}
    /\ repoll' = poll(tx, slot)
    /\ slot' = IF poll(tx, slot).st = "ok" THEN NoMsg ELSE slot
    /\ UNCHANGED <<env, clone, held, tx, answerAlive, outcome, sends, taken, sendRes, last,
                   branches, dpc, dclass, didx, dsender, d0, ran, views, mboxVars, ctlVars>>

\* What msg! would do if it chose the class of branches by the envelope's mode
\* (is_ask()) instead of by the sender it took.
DispatchStartByMode ==
    /\ InHand
    /\ d0' = env
    /\ env' = take_sender(env).msg
    /\ dsender' = take_sender(env).sender
    /\ taken' = taken + (IF take_sender(env).sender = "some" THEN 1 ELSE 0)
    /\ dclass' = IF is_broadcast(take_sender(env).msg) THEN "ref"
                 ELSE IF is_ask(take_sender(env).msg) THEN "ask"
                 ELSE "tell"
    /\ didx' = 1
    /\ dpc' = "probe"
    /\ ran' = <<>>
    /\ UNCHANGED <<clone, held, tx, slot, answerAlive, outcome, sends, sendRes, last,
                   branches, repoll, views, mboxVars, ctlVars>>

\* msg!: let mut $var = $msg; let sender = $var.take_sender(); then the class of
\* branches is chosen: is_broadcast(), else sender.is_some(), else the rest.
DispatchStart ==
    /\ InHand
    /\ d0' = env
    /\ env' = take_sender(env).msg
    /\ dsender' = take_sender(env).sender
    /\ taken' = taken + (IF take_sender(env).sender = "some" THEN 1 ELSE 0)
    /\ dclass' = IF is_broadcast(take_sender(env).msg) THEN "ref"
                 ELSE IF take_sender(env).sender # NoSender THEN "ask"
                 ELSE "tell"
    /\ didx' = 1
    /\ dpc' = "probe"
    /\ ran' = <<>>
    /\ UNCHANGED <<clone, held, tx, slot, answerAlive, outcome, sends, sendRes, last,
                   branches, repoll, views, mboxVars, ctlVars>>

\* One candidate is probed: downcast_ref for a broadcast, the consuming downcast
\* otherwise; a match runs its handler, a mismatch hands the envelope on.
DispatchProbe ==
    /\ dpc = "probe"
    /\ didx <= Len(Candidates)
    /\ LET T == branches[Candidates[didx]].ty
           hit == IF dclass = "ref" THEN downcast_ref(env, T) # NoVal ELSE downcast(env, T).ok
       IN /\ env' = IF dclass = "ref" THEN env ELSE downcast(env, T).msg
          /\ IF hit
             THEN /\ ran' = Append(ran, Candidates[didx])
                  /\ dpc' = "handler"
                  /\ UNCHANGED didx
             ELSE /\ didx' = didx + 1
                  /\ UNCHANGED <<ran, dpc>>
    /\ UNCHANGED <<clone, held, tx, slot, answerAlive, outcome, sends, taken, sendRes, last,
                   branches, dclass, dsender, d0, repoll, views, mboxVars, ctlVars>>

\* No candidate matched: the default handler runs.
DispatchDefault ==
    /\ dpc = "probe"
    /\ didx > Len(Candidates)
    /\ ran' = Append(ran, 0)
    /\ dpc' = "handler"
    /\ UNCHANGED <<env, clone, held, tx, slot, answerAlive, outcome, sends, taken, sendRes, last,
                   branches, dclass, didx, dsender, d0, repoll, views, mboxVars, ctlVars>>

\* The handler of an ask-class dispatch calls answer!(w): sender.send(w).
DispatchAnswer(w) ==
    /\ dpc = "handler"
    /\ dclass = "ask"
    /\ dsender = "some"
    /\ dsender' = NoSender
    /\ Sending(w)
    /\ UNCHANGED <<env, clone, held, answerAlive, outcome, taken, last,
                   branches, dpc, dclass, didx, d0, ran, repoll, views, mboxVars, ctlVars>>

\* What the end of the macro's block would be if `sender` were leaked instead of
\* dropped.
DispatchEndLeaksSender ==
    /\ dpc = "handler"
    /\ dpc' = "done"
    /\ dsender' = NoSender
    /\ env' = NoMsg
    /\ UNCHANGED <<clone, held, tx, slot, answerAlive, outcome, sends, taken, sendRes, last,
                   branches, dclass, didx, d0, ran, repoll, views, mboxVars, ctlVars>>

\* The macro's block ends: `sender` and `$var` go out of scope.
DispatchEnd ==
    /\ dpc = "handler"
    /\ dpc' = "done"
    /\ dsender' = NoSender
    /\ env' = NoMsg
    /\ tx' = IF dsender = "some" THEN SenderDropped ELSE tx
    /\ UNCHANGED <<clone, held, slot, answerAlive, outcome, sends, taken, sendRes, last,
                   branches, dclass, didx, d0, ran, repoll, views, mboxVars, ctlVars>>

NextMsg ==
    \/ OpTakeSender
    \/ \E T \in Types : OpDowncast(T)
    \/ \E T \in Types : OpDowncastRef(T)
    \/ OpDropView
    \/ \E T \in Types : OpTryUnwrap(T)
    \/ OpTryClone
    \/ OpDropClone
    \/ OpDropEnvelope
    \/ \E w \in Replies : Send(w)
    \/ DropSender
    \/ DropAnswer
    \/ PollAnswer
    \/ PollAgain
    \/ DispatchStart
    \/ DispatchProbe
    \/ DispatchDefault
    \/ \E w \in Replies : DispatchAnswer(w)
    \/ DispatchEnd

SpecMsg == InitMsg /\ [][NextMsg]_vars

\* The one-shot channel wakes the asker's task when a value is sent or the sender
\* is dropped, so an awaited Answer is polled again.
FairMsg == SpecMsg /\ WF_vars(PollAnswer)

(* ------------------------- control envelopes -------------------------- *)

BastionIds == {"id1", "id2"}
Strategies == {"OneForOne", "OneForAll", "RestForOne"}

\* BastionMessage's constructors.
start == Ctl("Start")
stop == Ctl("Stop")
kill == Ctl("Kill")
deploy_supervisor == [Ctl("Deploy") EXCEPT !.deploy = "Supervisor"]
deploy_children == [Ctl("Deploy") EXCEPT !.deploy = "Children"]
prune(id) == [Ctl("Prune") EXCEPT !.id = id]
supervise_with(strategy) == [Ctl("SuperviseWith") EXCEPT !.strategy = strategy]
message(m) == [Ctl("Message") EXCEPT !.msg = m]
stopped(id) == [Ctl("Stopped") EXCEPT !.id = id]
faulted(id) == [Ctl("Faulted") EXCEPT !.id = id]

\* The envelopes a Message variant wraps: every mode, an ask with and without
\* its reply sender.
InnerMsgs ==
    UNION {{broadcast(p), tell(p), ask(p), take_sender(ask(p)).msg} : p \in Payloads}

ControlEnvelopes ==
    {start, stop, kill, deploy_supervisor, deploy_children}
    \cup {prune(id) : id \in BastionIds}
    \cup {supervise_with(s) : s \in Strategies}
    \cup {message(m) : m \in InnerMsgs}
    \cup {stopped(id) : id \in BastionIds}
    \cup {faulted(id) : id \in BastionIds}

Cloned(b) == [panic |-> FALSE, res |-> b]
Unimplemented == [panic |-> TRUE, res |-> NoCtl]

\* What BastionMessage::try_clone would be with the Stopped arm building a Faulted.
BastionMessage_try_clone_mixed(b) ==
    CASE b.tag = "Deploy" -> Unimplemented
      [] b.tag = "Message" ->
            IF try_clone(b.msg) = NoMsg THEN Cloned(NoCtl) ELSE Cloned(message(try_clone(b.msg)))
      [] b.tag = "Stopped" -> Cloned(faulted(b.id))
      [] OTHER -> Cloned(b)

\* BastionMessage::try_clone: one arm per variant; the Deploy arm is
\* unimplemented!(), the Message arm is msg.try_clone()?.
BastionMessage_try_clone(b) ==
    CASE b.tag = "Start" -> Cloned(start)
      [] b.tag = "Stop" -> Cloned(stop)
      [] b.tag = "Kill" -> Cloned(kill)
      [] b.tag = "Deploy" -> Unimplemented
      [] b.tag = "Prune" -> Cloned(prune(b.id))
      [] b.tag = "SuperviseWith" -> Cloned(supervise_with(b.strategy))
      [] b.tag = "Message" ->
            IF try_clone(b.msg) = NoMsg THEN Cloned(NoCtl) ELSE Cloned(message(try_clone(b.msg)))
      [] b.tag = "Stopped" -> Cloned(stopped(b.id))
      [] b.tag = "Faulted" -> Cloned(faulted(b.id))

\* BastionMessage::into_msg::<T>: msg.try_unwrap().ok() on a Message, None otherwise.
BastionMessage_into_msg(b, T, others) ==
    IF b.tag = "Message" THEN try_unwrap(b.msg, T, others).val ELSE NoVal

InitCtl ==
    /\ MailboxIdle
    /\ MsgIdle
    /\ bmsg \in ControlEnvelopes
    /\ bclone = NoCtl
    /\ bpc = "ok"
    /\ blast = NoCtlOp

CtlInHand == bmsg # NoCtl /\ bpc = "ok"

\* The handles to the inner payload of bmsg held elsewhere: a live clone.
CtlOthers == IF bclone.tag = "Message" THEN 1 ELSE 0

CtlDid(op, T, res, val) ==
    [op |-> op, T |-> T, before |-> bmsg, others |-> CtlOthers, res |-> res, val |-> val]

\* bmsg.try_clone(): the caller keeps the clone; a panic unwinds the caller.
CtlTryClone ==
    /\ CtlInHand
    /\ bclone = NoCtl
    /\ bclone' = BastionMessage_try_clone(bmsg).res
    /\ bpc' = IF BastionMessage_try_clone(bmsg).panic THEN "panicked" ELSE "ok"
    /\ blast' = CtlDid("try_clone", "none", BastionMessage_try_clone(bmsg).res, NoVal)
    /\ UNCHANGED <<bmsg, mboxVars, msgVars>>

CtlDropClone ==
    /\ bpc = "ok"
    /\ bclone # NoCtl
    /\ bclone' = NoCtl
    /\ UNCHANGED <<bmsg, bpc, blast, mboxVars, msgVars>>

\* bmsg.into_msg::<T>(): self is consumed.
CtlIntoMsg(T) ==
    /\ CtlInHand
    /\ bmsg' = NoCtl
    /\ blast' = CtlDid("into_msg", T, NoCtl, BastionMessage_into_msg(bmsg, T, CtlOthers))
    /\ UNCHANGED <<bclone, bpc, mboxVars, msgVars>>

NextCtl ==
    \/ CtlTryClone
    \/ CtlDropClone
    \/ \E T \in Types : CtlIntoMsg(T)

SpecCtl == InitCtl /\ [][NextCtl]_vars

(* ===================== properties of the mailbox ====================== *)

E1 == Envelope("p1", 1)
E2 == Envelope("p1", 2)
E3 == Envelope("p1", 3)

\* The envelopes the receive calls have returned, in order.
Popped ==
    LET S == SelectSeq(log, LAMBDA r : r.res # None)
    IN [i \in 1..Len(S) |-> S[i].res]

\* The envelopes recv calls have returned, in order.
RecvResults ==
    LET S == SelectSeq(log, LAMBDA r : r.kind = "recv")
    IN [i \in 1..Len(S) |-> S[i].res]

\* The envelope of a push whose critical section has not ended yet.
InFlight ==
    IF \E p \in Producers : ppc[p] = "unlock"
    THEN <<Envelope(CHOOSE p \in Producers : ppc[p] = "unlock",
                    sent[CHOOSE p \in Producers : ppc[p] = "unlock"])>>
    ELSE <<>>

\* Each producer's envelopes appear in s in that producer's send order.
PerProducerOrdered(s) ==
    \A i, j \in 1..Len(s) :
        (i < j /\ ProducerOf(s[i]) = ProducerOf(s[j])) => s[i].val < s[j].val

\* A step of the mailbox: nothing, a push at the back that leaves the buffered
\* envelopes as they were, or a pop that returns the oldest one.
FifoStep ==
    \/ /\ msgs' = msgs
       /\ \/ log' = log
          \/ \E k \in {"try_recv", "recv"} : log' = Append(log, [kind |-> k, res |-> None])
    \/ /\ \E e \in Envelopes : msgs' = Append(msgs, e)
       /\ log' = log
    \/ /\ msgs # <<>>
       /\ msgs' = Tail(msgs)
       /\ \E k \in {"try_recv", "recv"} : log' = Append(log, [kind |-> k, res |-> Head(msgs)])

\* C1: every successful pop returns the oldest envelope still buffered, a push
\* never reorders the envelopes already buffered, and e1, e2, e3 pushed in that
\* order by one producer are popped as e1, e2, e3.
C1_Fifo ==
    /\ [][FifoStep]_vars
    /\ []((completed = <<E1, E2, E3>> /\ Len(Popped) = 3) => Popped = <<E1, E2, E3>>)

C1_Witness == completed = <<E1, E2, E3>> /\ Popped = <<E1, E2, E3>>

\* C2: with several producers pushing under the lock, the order of the pops is
\* the order in which the push critical sections completed, and each producer's
\* envelopes stay in that producer's send order.
C2_ProducerOrder ==
    /\ Popped \o msgs = completed \o InFlight
    /\ PerProducerOrdered(Popped)

C2_Witness ==
    /\ Popped = <<Envelope("p2", 1), Envelope("p1", 1), Envelope("p2", 2)>>
    /\ completed = Popped

RecvWaiting == ckind = "recv" /\ cpc \in {"lock", "locked", "parked"}

\* A step in which a recv call returns.
RecvReturns == ckind = "recv" /\ cpc # "panicked" /\ cpc' = "idle"

TryNone == [kind |-> "try_recv", res |-> None]

\* C4: try_recv never waits for a message: it is never at recv's yield point, on
\* an empty mailbox it returns None in the step that follows the lock and leaves
\* the mailbox as it was; and as long as every try_recv found nothing, the recv
\* calls yield the pushed envelopes in push order (1, 2, 3 for pushes 1, 2, 3).
C4_TryRecvNeverWaits ==
    /\ [](ckind = "try_recv" => cpc # "parked")
    /\ [][(cpc = "locked" /\ ckind = "try_recv" /\ msgs = <<>> /\ cpc' # cpc)
            => (cpc' = "idle" /\ msgs' = msgs /\ log' = Append(log, TryNone))]_vars
    /\ []((\A i \in 1..Len(log) : log[i].kind = "try_recv" => log[i] = TryNone)
            => RecvResults \o msgs = completed \o InFlight)
    /\ []((completed = <<E1, E2, E3>> /\ Len(RecvResults) = 3
            /\ \A i \in 1..Len(log) : log[i].kind = "try_recv" => log[i] = TryNone)
            => RecvResults = <<E1, E2, E3>>)

C4_Witness ==
    /\ Len(log) = 4
    /\ log[2] = TryNone
    /\ RecvResults = <<E1, E2, E3>>
    /\ completed = <<E1, E2, E3>>

\* C5: when acquiring the mailbox lock fails, recv returns a failure to its
\* caller: it does not panic.
C5_RecvSurfacesLockFailure == cpc # "panicked"


(* ============= properties of the envelope and its reply =============== *)

\* C6: downcast::<T> on a tell or ask envelope returns the payload by value,
\* consuming the envelope, exactly when T is the payload's type; otherwise it
\* returns the envelope as it was (mode, payload, reply sender), from which a
\* downcast with the right type still recovers the payload.
C6_Downcast ==
    (last.op = "downcast" /\ last.before.mode \in {"Tell", "Ask"}) =>
        IF last.T = last.before.ty
        THEN /\ last.ok
             /\ last.val = PayloadOf(last.before)
             /\ dpc = "idle" => env = NoMsg
        ELSE /\ ~last.ok
             /\ last.msg = last.before
             /\ dpc = "idle" =>
                    /\ env = last.before
                    /\ downcast(env, last.before.ty) = Ok(PayloadOf(last.before))

C6_Witness ==
    /\ last.op = "downcast"
    /\ ~last.ok
    /\ last.before = ask([ty |-> "str", val |-> "ping"])
    /\ last.T = "i32"
    /\ env = last.before

Min(S) == CHOOSE x \in S : \A y \in S : x <= y

\* The first branch of class cls, in declaration order, whose type is ty; 0, the
\* default, when there is none.
FirstMatch(bs, cls, ty) ==
    LET S == {i \in 1..Len(bs) : bs[i].cls = cls /\ bs[i].ty = ty}
    IN IF S = {} THEN 0 ELSE Min(S)

\* The branch class of an envelope by its mode alone.
ModeClass(m) ==
    IF m.mode = "Broadcast" THEN "ref" ELSE IF m.mode = "Ask" THEN "ask" ELSE "tell"

\* The branch class of an envelope that can be answered only with its sender attached.
AnswerableClass(m) ==
    IF m.mode = "Broadcast" THEN "ref"
    ELSE IF m.mode = "Ask" /\ m.sender = "some" THEN "ask"
    ELSE "tell"

Dispatched == dpc \in {"handler", "done"}

\* C7 as stated: the dispatcher runs exactly the first matching branch among the
\* branches of the envelope's mode (=!> branches for every ask envelope), or the
\* default.
C7_Original ==
    Dispatched => ran = <<FirstMatch(branches, ModeClass(d0), d0.ty)>>

\* C7 amended: the dispatcher runs exactly one handler: the first matching branch
\* among the ref branches for a broadcast, the =!> branches for an ask envelope
\* whose reply sender is still attached, the => branches for a tell envelope and
\* for an ask envelope whose sender was detached before; the default if none
\* matches. While it probes, the envelope keeps its mode and payload.
C7_Dispatch ==
    /\ dpc = "probe" =>
          /\ ran = <<>>
          /\ env.mode = d0.mode
          /\ PayloadOf(env) = PayloadOf(d0)
    /\ Dispatched => ran = <<FirstMatch(branches, AnswerableClass(d0), d0.ty)>>

\* ask("ping") is probed against i32 =!> (no match), then matches str =!>, whose
\* handler answers "pong"; the asker's Answer resolves to "pong".
C7_Witness ==
    /\ d0 = ask([ty |-> "str", val |-> "ping"])
    /\ branches = <<Branch("ref", "str"), Branch("tell", "str"), Branch("ask", "i32"), Branch("ask", "str")>>
    /\ ran = <<4>>
    /\ dpc = "done"
    /\ outcome = [st |-> "ok", msg |-> tell([ty |-> "str", val |-> "pong"])]

\* C8: a send(w) on the detached reply sender while the Answer is alive succeeds,
\* and the awaited Answer then resolves to an envelope whose payload is w.
C8_AskRoundTrip ==
    /\ [][(sends' = sends + 1 /\ answerAlive)
            => (sendRes'.ok /\ sendRes'.back = NoVal /\ slot' = tell(sendRes'.w))]_vars
    /\ []((sendRes.ok /\ outcome.st # "pending")
            => (outcome.st = "ok" /\ PayloadOf(outcome.msg) = sendRes.w))
    /\ (sendRes.ok /\ answerAlive)
            ~> (~answerAlive \/ (outcome.st = "ok" /\ PayloadOf(outcome.msg) = sendRes.w))

C8_Witness ==
    /\ dpc = "idle"
    /\ taken = 1
    /\ last.op = "downcast"
    /\ last.ok
    /\ last.before.mode = "Ask"
    /\ sendRes.ok
    /\ sendRes.w = [ty |-> "str", val |-> "pong"]
    /\ outcome = [st |-> "ok", msg |-> tell([ty |-> "str", val |-> "pong"])]

\* The reply senders alive: inside the envelope or a clone, detached and held, or
\* the dispatcher's local.
LiveSenders ==
    (IF env.sender = "some" THEN 1 ELSE 0) + (IF clone.sender = "some" THEN 1 ELSE 0)
    + held + (IF dsender = "some" THEN 1 ELSE 0)

\* C9: once the reply sender of an ask is gone without a send (dropped after
\* being detached, or dropped inside its envelope), awaiting the Answer resolves
\* to a failure: a poll then yields the failure, and the await does not stay
\* pending.
C9_DroppedSender ==
    /\ [][(tx # "none" /\ LiveSenders = 0 /\ sends = 0 /\ outcome' # outcome)
            => outcome'.st = "err"]_vars
    /\ (tx # "none" /\ LiveSenders = 0 /\ sends = 0 /\ answerAlive)
            ~> (~answerAlive \/ outcome.st = "err")

C9_Witness ==
    /\ last.op = "drop"
    /\ last.before.mode = "Ask"
    /\ last.before.sender = "some"
    /\ sends = 0
    /\ outcome.st = "err"

\* C10: for every ask at most one send is ever performed on its reply channel,
\* the sender is obtained from the envelope at most once, exists at most once
\* (try_clone gives none for tell and ask) and is consumed by send; the awaited
\* Answer resolves to the one value sent, or to a failure when none was delivered.
C10_AtMostOneReply ==
    /\ sends <= 1
    /\ taken <= 1
    /\ LiveSenders <= 1
    /\ (sends = 1 \/ tx # "alive") => LiveSenders = 0
    /\ (last.op = "try_clone" /\ last.before.mode \in {"Tell", "Ask"}) => ~last.ok
    /\ clone.sender = NoSender
    /\ outcome.st = "ok" => (sends = 1 /\ sendRes.ok /\ outcome.msg = tell(sendRes.w))
    /\ outcome.st = "err" => ~sendRes.ok

C10_Witness ==
    /\ last.op = "take_sender"
    /\ last.before.mode = "Ask"
    /\ ~last.ok
    /\ taken = 1
    /\ sends = 1
    /\ outcome.st = "ok"

\* C11 as stated: polling the Answer again after it has resolved yields the same
\* result as the first resolution (after resolving to the reply w, w again).
C11_Original == repoll.st # "none" => repoll = outcome

\* C11: polling the Answer again after it has resolved never yields a value: the
\* first resolution moved the reply out of the channel, so a second poll yields
\* a failure, after a resolution to the reply w as after a resolution to a
\* failure; the reply is observed once.
C11_RepollFails ==
    /\ repoll.st # "none" => (outcome.st \in {"ok", "err"} /\ repoll = Unresolved("err"))
    /\ outcome.st = "ok" => slot = NoMsg

C11_Witness ==
    /\ outcome = [st |-> "ok", msg |-> tell([ty |-> "i32", val |-> 2])]
    /\ repoll = Unresolved("err")
    /\ answerAlive

\* C12: a send(w) on the reply sender of an ask whose Answer was dropped before
\* any reply fails and returns exactly w to its caller; it does not panic and
\* nothing is delivered.
C12_SendAfterAnswerDropped ==
    [][(sends' = sends + 1 /\ ~answerAlive)
         => /\ ~sendRes'.ok
            /\ ~sendRes'.panic
            /\ sendRes'.back = sendRes'.w
            /\ slot' = NoMsg
            /\ outcome' = outcome
            /\ tx' = "dropped"]_vars

C12_Witness ==
    /\ ~answerAlive
    /\ outcome.st = "pending"
    /\ sends = 1
    /\ ~sendRes.ok
    /\ sendRes.w = [ty |-> "str", val |-> "pong"]
    /\ sendRes.back = [ty |-> "str", val |-> "pong"]

(* ================== properties of control envelopes =================== *)

\* C13 as stated: try_clone on a Deploy control envelope returns none as an
\* ordinary result value (the caller goes on).
C13_DeployCloneIsNone ==
    (blast.op = "try_clone" /\ blast.before.tag = "Deploy")
        => (bpc = "ok" /\ blast.res = NoCtl)

\* The variants C15 lists as always clonable.
PlainVariants == {"Start", "Stop", "Kill", "Prune", "SuperviseWith", "Stopped", "Faulted"}

\* C15: BastionMessage::try_clone on a Start, Stop, Kill, Prune, SuperviseWith,
\* Stopped or Faulted control envelope returns a clone of the same variant with
\* an equal payload; on a Message variant it returns a clone exactly when the
\* inner envelope is a broadcast, and none for an inner tell or ask; the
\* original is left as it was.
C15_ControlClone ==
    blast.op = "try_clone" =>
        /\ bmsg = blast.before
        /\ blast.before.tag \in PlainVariants =>
                /\ bpc = "ok"
                /\ blast.res.tag = blast.before.tag
                /\ blast.res.id = blast.before.id
                /\ blast.res.strategy = blast.before.strategy
                /\ blast.res = blast.before
        /\ blast.before.tag = "Message" =>
                /\ bpc = "ok"
                /\ blast.res # NoCtl <=> is_broadcast(blast.before.msg)
                /\ blast.res # NoCtl =>
                        /\ blast.res.tag = "Message"
                        /\ is_broadcast(blast.res.msg)
                        /\ PayloadOf(blast.res.msg) = PayloadOf(blast.before.msg)
                /\ (is_tell(blast.before.msg) \/ is_ask(blast.before.msg)) => blast.res = NoCtl

C15_Witness ==
    /\ blast.op = "try_clone"
    /\ blast.before = stopped("id2")
    /\ bclone = stopped("id2")
    /\ bmsg = stopped("id2")

\* The Message arm of C15: a broadcast inside is cloned, the clone is held.
C15_WitnessMessage ==
    /\ blast.op = "try_clone"
    /\ blast.before = message(broadcast([ty |-> "str", val |-> "ping"]))
    /\ bclone = message(broadcast([ty |-> "str", val |-> "ping"]))

(* ================= properties of envelope operations ================== *)

\* C14: Msg::try_clone succeeds exactly for a broadcast envelope and returns none
\* for every tell or ask envelope, with or without its reply sender; the clone of
\* broadcast(v) is a broadcast envelope whose downcast_ref with the constructed
\* type equals v, and the original envelope is unchanged.
C14_TryClone ==
    /\ [](last.op = "try_clone" =>
            /\ last.ok <=> is_broadcast(last.before)
            /\ (is_tell(last.before) \/ is_ask(last.before)) => (~last.ok /\ last.msg = NoMsg)
            /\ last.ok =>
                    /\ is_broadcast(last.msg)
                    /\ downcast_ref(last.msg, last.before.ty) = PayloadOf(last.before)
                    /\ \A T \in Types \ {last.before.ty} : downcast_ref(last.msg, T) = NoVal)
    /\ [][(last' # last /\ last'.op = "try_clone")
            => (env' = env /\ last'.before = env /\ clone' = last'.msg)]_vars

C14_Witness ==
    /\ last.op = "try_clone"
    /\ last.ok
    /\ env = broadcast([ty |-> "str", val |-> "ping"])
    /\ clone = broadcast([ty |-> "str", val |-> "ping"])
    /\ downcast_ref(clone, "str") = [ty |-> "str", val |-> "ping"]

\* try_clone refused on an ask whose reply sender was already detached.
C14_WitnessAsk ==
    /\ last.op = "try_clone"
    /\ ~last.ok
    /\ is_ask(last.before)
    /\ last.before.sender = NoSender
    /\ env = last.before

\* C16: try_unwrap::<T> on a broadcast envelope returns the owned payload only if
\* T matches and no other handle to the payload is alive (no clone made by
\* try_clone, no view returned by downcast_ref); otherwise its result is the one
\* the tell/ask downcast path gives: the envelope handed back as the error.
C16_TryUnwrap ==
    last.op = "try_unwrap" =>
        /\ is_broadcast(last.before) =>
                /\ last.ok <=> (last.before.ty = last.T /\ last.others = 0)
                /\ last.ok => (last.val = PayloadOf(last.before) /\ last.msg = NoMsg)
                /\ ~last.ok => last.msg = last.before
        /\ ~last.ok =>
                /\ [ok |-> last.ok, val |-> last.val, msg |-> last.msg] = downcast(last.before, last.T)
                /\ dpc = "idle" => env = last.msg
        /\ ~is_broadcast(last.before) =>
                [ok |-> last.ok, val |-> last.val, msg |-> last.msg] = downcast(last.before, last.T)

C16_Witness ==
    /\ last.op = "try_unwrap"
    /\ is_broadcast(last.before)
    /\ last.T = last.before.ty
    /\ last.others = 1
    /\ views = 1
    /\ clone = NoMsg
    /\ ~last.ok
    /\ env = last.before

\* The last handle: the owned payload comes out and the envelope is consumed.
C16_WitnessOwned ==
    /\ last.op = "try_unwrap"
    /\ is_broadcast(last.before)
    /\ last.others = 0
    /\ last.ok
    /\ last.val = [ty |-> "i32", val |-> 1]
    /\ env = NoMsg

\* C17: downcast_ref::<T> on broadcast(v) returns a view equal to v when T is the
\* constructed type and leaves the envelope untouched, so that calling it again
\* returns a second view of the same value; it returns none when T does not
\* match and when the envelope is a tell or an ask.
C17_DowncastRef ==
    /\ [](last.op = "downcast_ref" =>
            /\ last.ok <=> (is_broadcast(last.before) /\ last.before.ty = last.T)
            /\ last.ok => last.val = PayloadOf(last.before)
            /\ ~last.ok => last.val = NoVal
            /\ (is_tell(last.before) \/ is_ask(last.before)) => ~last.ok)
    /\ [][((last' # last \/ views' > views) /\ last'.op = "downcast_ref")
            => /\ env' = env
               /\ last'.before = env
               /\ clone' = clone
               /\ views' = views + (IF last'.ok THEN 1 ELSE 0)]_vars
    /\ [][(last.op = "downcast_ref" /\ last'.op = "downcast_ref" /\ views' > views
            /\ last'.T = last.T)
            => (last'.ok = last.ok /\ last'.val = last.val)]_vars

C17_Witness ==
    /\ last.op = "downcast_ref"
    /\ last.ok
    /\ last.others = 1
    /\ views = 2
    /\ clone = NoMsg
    /\ last.val = [ty |-> "i32", val |-> 1]
    /\ env = broadcast([ty |-> "i32", val |-> 1])

\* C18: take_sender returns the reply sender on its first call on an ask
\* envelope, and none on every later call and on every broadcast or tell
\* envelope; the envelope is otherwise unchanged: an ask is still in ask mode
\* (is_ask true) and its payload is still recoverable by downcast.
C18_TakeSender ==
    /\ [](last.op = "take_sender" =>
            /\ last.ok <=> (is_ask(last.before) /\ last.before.sender = "some")
            /\ (is_broadcast(last.before) \/ is_tell(last.before)) => (~last.ok /\ last.msg = last.before)
            /\ last.msg = [last.before EXCEPT !.sender = NoSender]
            /\ is_ask(last.before) =>
                    /\ is_ask(last.msg)
                    /\ ~is_tell(last.msg) /\ ~is_broadcast(last.msg)
                    /\ downcast(last.msg, last.before.ty) = Ok(PayloadOf(last.before))
            /\ dpc = "idle" => env = last.msg)
    /\ [][(last' # last /\ last'.op = "take_sender")
            => /\ last'.before = env
               /\ last'.ok <=> (is_ask(env) /\ taken = 0)
               /\ held' = held + (IF last'.ok THEN 1 ELSE 0)
               /\ clone' = clone /\ views' = views /\ tx' = tx /\ slot' = slot]_vars

C18_Witness ==
    /\ last.op = "take_sender"
    /\ ~last.ok
    /\ last.before = [ask([ty |-> "str", val |-> "ping"]) EXCEPT !.sender = NoSender]
    /\ env = last.before
    /\ is_ask(env)
    /\ taken = 1
    /\ held = 1

(* =================== properties of the dispatcher ===================== *)

\* No =!> branch of the invocation has the type of the dispatched envelope.
NoAskMatch == FirstMatch(branches, "ask", d0.ty) = 0

\* C19 as stated: for every ask envelope handed to msg! with no matching =!>
\* candidate, the default handler runs, and without an explicit reply the
\* sender has been dropped by the end of the dispatch.
C19_Original ==
    (dpc = "done" /\ is_ask(d0) /\ NoAskMatch)
        => (ran = <<0>> /\ (sends = 0 => tx = "dropped"))

\* C19: when msg! is handed an ask envelope with its reply sender still attached
\* and no =!> candidate matches, the default handler runs; running it sends no
\* reply; unless the handler itself replies, the sender is dropped when the
\* dispatch ends, and the asker's Answer resolves to a failure, not to a value.
C19_AskDefault ==
    /\ []((Dispatched /\ is_ask(d0) /\ d0.sender = "some" /\ NoAskMatch)
            => (dclass = "ask" /\ ran = <<0>>))
    /\ [][(dclass = "ask" /\ dpc = "probe" /\ ran' = <<0>>)
            => (sends' = sends /\ slot' = slot /\ tx' = tx /\ dsender' = "some")]_vars
    /\ []((dpc = "done" /\ dclass = "ask" /\ ran = <<0>> /\ sends = 0)
            => (tx = "dropped" /\ slot = NoMsg /\ outcome.st \in {"pending", "err"}))
    /\ (dpc = "done" /\ dclass = "ask" /\ ran = <<0>> /\ sends = 0 /\ answerAlive)
            ~> (~answerAlive \/ outcome.st = "err")

C19_Witness ==
    /\ dpc = "done"
    /\ d0 = ask([ty |-> "str", val |-> "ping"])
    /\ branches = <<Branch("ask", "i32")>>
    /\ ran = <<0>>
    /\ sends = 0
    /\ tx = "dropped"
    /\ outcome.st = "err"

(* ================== properties of the mailbox lock ==================== *)

\* The tasks with a lock request queued.
Requesting == {queue[i] : i \in 1..Len(queue)}

\* C20: recv never holds the mailbox lock while it is suspended waiting for a
\* message: on finding the mailbox empty it releases the lock before yielding,
\* and on returning an envelope it releases the lock too, so whenever a recv call
\* is parked at its yield point a producer can acquire the lock and push.
C20_RecvParkedUnlocked ==
    /\ [](cpc = "parked" => (ckind = "recv" /\ holder # Consumer /\ Consumer \notin Requesting))
    /\ [](cpc = "idle" => holder # Consumer)
    /\ [][(ckind = "recv" /\ cpc = "locked" /\ cpc' \in {"parked", "idle"})
            => (holder = Consumer /\ holder' = NoTask)]_vars
    /\ []((cpc = "parked" /\ lockUsable /\ holder = NoTask /\ queue # <<>>)
            => ENABLED (\E p \in Producers : ProducerPush(p)))

C20_Witness ==
    /\ cpc = "parked"
    /\ ckind = "recv"
    /\ holder = "p2"
    /\ ppc["p2"] = "unlock"
    /\ msgs = <<Envelope("p2", 1)>>

(* ================ properties of the mailbox's contents ================ *)

\* The envelopes pushed so far.
Pushed == {Envelope(p, k) : p \in Producers, k \in 1..MaxSend} \cap
          UNION {{Envelope(p, k) : k \in 1..sent[p]} : p \in Producers}

Range(s) == {s[i] : i \in 1..Len(s)}

\* A step in which a receive call returns, and what it returns.
ReceiveReturns == Len(log') = Len(log) + 1
Result == log'[Len(log')].res

\* C21: under any interleaving of pushes with try_recv and recv calls the
\* mailbox follows the Empty / HasMessages(n) state machine: a push increases
\* the length by exactly one, a successful pop decreases it by exactly one, a pop
\* on Empty changes nothing, and every pushed envelope is returned by at most
\* one receive call and is otherwise still buffered (length = pushes - pops).
C21_MailboxStateMachine ==
    /\ [](Len(msgs) = Cardinality(Pushed) - Len(Popped))
    /\ [](Cardinality(Range(Popped)) = Len(Popped))
    /\ [](Range(Popped) \cap Range(msgs) = {})
    /\ [](Range(Popped) \cup Range(msgs) = Pushed)
    /\ [][Pushed' # Pushed
            => (Len(msgs') = Len(msgs) + 1 /\ log' = log
                /\ Cardinality(Pushed') = Cardinality(Pushed) + 1)]_vars
    /\ [][(ReceiveReturns /\ Result # None)
            => (msgs # <<>> /\ Len(msgs') = Len(msgs) - 1 /\ Pushed' = Pushed)]_vars
    /\ [][(ReceiveReturns /\ Result = None) => (msgs' = msgs /\ Pushed' = Pushed)]_vars
    /\ [][(cpc = "locked" /\ msgs = <<>> /\ cpc' # cpc) => (msgs' = <<>> /\ Popped' = Popped)]_vars
    /\ [][msgs' # msgs => (Pushed' # Pushed \/ (ReceiveReturns /\ Result # None))]_vars

C21_Witness ==
    /\ Len(Popped) = 2
    /\ Len(msgs) = 1
    /\ Cardinality(Pushed) = 3
    /\ cparked
    /\ \E i \in 1..Len(log) : log[i] = Returned("try_recv", None)

\* The tasks inside a critical section on the mailbox: between the grant of the
\* guard and its release.
InCritical ==
    {p \in Producers : ppc[p] = "unlock"} \cup (IF cpc = "locked" THEN {Consumer} ELSE {})

\* C22: the mailbox's sequence is mutated only by the task holding its lock, and
\* at most one task (a producer or the consumer's try_recv/recv) holds the lock
\* at any time, so a push and a pop never run on the sequence together.
C22_MutualExclusion ==
    /\ [](Cardinality(InCritical) <= 1)
    /\ [](InCritical = (IF holder = NoTask THEN {} ELSE {holder}))
    /\ [][msgs' # msgs
            => \/ (holder = Consumer /\ cpc = "locked" /\ InCritical = {Consumer}
                   /\ Len(msgs') < Len(msgs))
               \/ (holder = NoTask /\ holder' \in Producers /\ InCritical = {}
                   /\ InCritical' = {holder'} /\ Len(msgs') > Len(msgs))]_vars

C22_Witness ==
    /\ holder = "p1"
    /\ ppc["p1"] = "unlock"
    /\ ppc["p2"] = "lock"
    /\ cpc = "lock"
    /\ Len(queue) = 2
    /\ msgs # <<>>

\* C23: a producer that has requested the mailbox lock in order to push
\* eventually acquires it and completes its push, also while the consumer keeps
\* calling recv or try_recv on an empty mailbox: every lock acquisition by
\* recv or try_recv is followed by a release. (A producer in "unlock" holds the
\* guard and has pushed; a lock that has become unusable fails the request
\* instead.)
C23_PushCompletes ==
    /\ \A p \in Producers : (ppc[p] = "lock") ~> (ppc[p] = "unlock" \/ ~lockUsable)
    /\ [][(cpc = "locked" /\ cpc' # cpc) => (holder = Consumer /\ holder' = NoTask)]_vars

C23_Witness ==
    /\ log = <<Returned("try_recv", None), Returned("try_recv", None)>>
    /\ cpc = "parked"
    /\ cparked
    /\ lockUsable
    /\ completed = <<Envelope("p2", 1)>>
    /\ ppc["p2"] = "idle"
    /\ msgs = <<Envelope("p2", 1)>>

\* The envelope handed to msg! is an ask whose reply sender was detached before.
DetachedAsk == is_ask(d0) /\ d0.sender = NoSender

\* C24: msg! chooses the =!> class by whether take_sender returned a sender, not
\* by the envelope's mode: an ask envelope whose reply sender was detached
\* before dispatch is probed against the => candidates only, never against the
\* =!> candidates, and falls to the default handler if no => candidate matches.
C24_ClassBySender ==
    /\ [](dpc # "idle" =>
            /\ dclass = "ask" <=> (is_ask(d0) /\ d0.sender = "some")
            /\ dclass = "tell" <=> (is_tell(d0) \/ DetachedAsk)
            /\ dclass = "ref" <=> is_broadcast(d0))
    /\ []((dpc # "idle" /\ DetachedAsk) =>
            /\ \A i \in 1..Len(Candidates) : branches[Candidates[i]].cls = "tell"
            /\ \A i \in 1..Len(ran) : ran[i] = 0 \/ branches[ran[i]].cls = "tell"
            /\ dsender = NoSender)
    /\ []((Dispatched /\ DetachedAsk) => ran = <<FirstMatch(branches, "tell", d0.ty)>>)
    /\ [][(dpc = "probe" /\ DetachedAsk /\ didx' = didx + 1)
            => (branches[Candidates[didx]].cls = "tell" /\ env' = env)]_vars

C24_Witness ==
    /\ dpc = "done"
    /\ d0 = [ask([ty |-> "i32", val |-> 1]) EXCEPT !.sender = NoSender]
    /\ branches = <<Branch("ask", "i32")>>
    /\ ran = <<0>>
    /\ held = 1
    /\ tx = "alive"

====
